---------------------------- MODULE Spec2Model ----------------------------
(***************************************************************************)
(* A model of scripts/notify_today.py: the pipeline that turns the events  *)
(* of a calendar into today's digest (normalize_event_to_jst,              *)
(* overlaps_today_jst, shape_memo, format_events_for_today) and sends it   *)
(* message by message (send_messages).                                     *)
(*                                                                         *)
(* Text is a sequence of Unicode code points, so lengths, slices and the   *)
(* order of titles are the ones Python's str has.  A JST datetime is the   *)
(* number of minutes of wall-clock time since 2024-01-01 00:00 JST (a      *)
(* Monday); Asia/Tokyo has no daylight saving time, so comparing two JST   *)
(* datetimes is comparing these numbers.                                   *)
(***************************************************************************)
EXTENDS Integers, Sequences, FiniteSets, TLC

VARIABLES
    \* ---- normalize_event_to_jst, applied to one event ----
    n_vevent,      \* the VEVENT handed to normalize_event_to_jst
    n_result,      \* what it returned, or Pending
    \* ---- shape_memo, applied twice ----
    m_desc,        \* the description text
    m_max_len,     \* MEMO_MAX
    m_allday,      \* allday_like
    m_pc,          \* how often shape_memo has been applied: "input", "once", "twice"
    m_once,        \* shape_memo(desc), once m_pc is past "input"
    m_twice,       \* shape_memo(shape_memo(desc)), once m_pc = "twice"
    \* ---- one run of main() ----
    pc,            \* where main() is
    clock,         \* the wall clock, minutes since the epoch, JST
    credentials,   \* whether LINE_CHANNEL_ACCESS_TOKEN / LINE_TO are set
    dump,          \* args.dump
    test_message,  \* args.test_message, or None
    ics_exists,    \* whether data/timetree.ics exists
    cal,           \* the VEVENTs of data/timetree.ics, in file order
    today,         \* main's today = today_jst()
    window,        \* (day_start, day_end) of format_events_for_today
    items,         \* format_events_for_today's items, as returned order
    header,        \* the header text (empty until it is built)
    event_msgs,    \* the event messages
    dumped,        \* the totals main prints with --dump, or Pending
    titles,        \* send_messages' titles argument, or None
    idx,           \* send_messages' loop index (0-based)
    sent,          \* send_messages' sent counter
    errors,        \* send_messages' errors counter
    wire,          \* every call of send_one so far: [text, status, ok]
    fail_log,      \* the failure lines printed by send_messages
    ok,            \* <<>>, then <<b>>: send_messages returned b to main
    exit_code      \* <<>> while main() runs, then <<c>>: sys.exit(c) was called

normVars == <<n_vevent, n_result>>
memoVars == <<m_desc, m_max_len, m_allday, m_pc, m_once, m_twice>>
\* what a run is started with
inputVars == <<credentials, dump, test_message, ics_exists, cal>>
mainVars == <<pc, clock, inputVars, today, window, items, header, event_msgs,
              dumped, titles, idx, sent, errors, wire, fail_log, ok, exit_code>>
vars == <<normVars, memoVars, mainVars>>

\* Python's None, and the value of a variable not assigned yet.
None == [none |-> TRUE]
Pending == [pending |-> TRUE]
\* a str or list value where None is possible too
Some(v) == [value |-> v]

(***************************************************************************)
(* Bounds of the model.                                                    *)
(***************************************************************************)
MaxDay == 2          \* raw dates and times lie on days 0 .. MaxDay
MaxPieces == 5       \* a description is at most this many pieces long
MaxTrunc == 3        \* the small values of MEMO_MAX tried: 1 .. MaxTrunc
MaxEvents == 2       \* VEVENTs in the calendar
MaxTicks == 1        \* half hours the clock may advance between its two reads

(***************************************************************************)
(* Program constants.                                                      *)
(***************************************************************************)
JstOffset == 540         \* ZoneInfo("Asia/Tokyo"): UTC+09:00, in minutes
OneDay == 1440           \* timedelta(days=1), in minutes
OneHour == 60            \* timedelta(hours=1), in minutes
DefaultMemoMax == 180    \* MEMO_MAX default
ClipAbove == 5000        \* clip_message: the longest message left alone
ClipTo == 4800           \* clip_message: the length it is cut to

(***************************************************************************)
(* Text.                                                                   *)
(***************************************************************************)
NL == 10
SP == 32
TimeLabel == <<12304, 38283, 20652, 26178, 21051, 12305>>   \* U+3010 kai-sai-ji-koku U+3011
AllDayWord == <<32066, 26085>>                               \* shuujitsu, "all day"
MemoSuffix == <<8230, 65288, 32154, 12365, 12354, 12426, 65289>>
ClipSuffix == <<8230, 65288, 38263, 25991, 30465, 30053, 65289>>
Bullet == <<12539>>
MemoHead == <<12513, 12514, 65306>>
Untitled == <<40, 28961, 38988, 41>>
NoTitle == <<40, 110, 111, 45, 116, 105, 116, 108, 101, 41>>   \* "(no-title)"
HeaderPlainPrefix == <<26412, 26085, 12398, 20104, 23450, 32>>
weekdays_jp == <<26376, 28779, 27700, 26408, 37329, 22303, 26085>>

\* str.isspace / the regex class \s, on the characters of the model
IsSpace(c) == c \in {9, 10, 11, 12, 13, 32}

RECURSIVE Concat(_)
Concat(seqs) == IF seqs = <<>> THEN <<>> ELSE Head(seqs) \o Concat(Tail(seqs))

\* sep.join(lines)
RECURSIVE join(_, _)
join(sep, lines) ==
    IF lines = <<>> THEN <<>>
    ELSE IF Len(lines) = 1 THEN lines[1]
    ELSE lines[1] \o sep \o join(sep, Tail(lines))

\* str.splitlines(), for text whose only line boundary is "\n"
RECURSIVE splitlines_from(_, _)
splitlines_from(s, cur) ==
    IF s = <<>> THEN (IF cur = <<>> THEN <<>> ELSE <<cur>>)
    ELSE IF Head(s) = NL THEN <<cur>> \o splitlines_from(Tail(s), <<>>)
    ELSE splitlines_from(Tail(s), Append(cur, Head(s)))

splitlines(s) == splitlines_from(s, <<>>)

RECURSIVE lstrip(_)
lstrip(s) == IF s # <<>> /\ IsSpace(Head(s)) THEN lstrip(Tail(s)) ELSE s

RECURSIVE rstrip(_)
rstrip(s) ==
    IF s # <<>> /\ IsSpace(s[Len(s)]) THEN rstrip(SubSeq(s, 1, Len(s) - 1)) ELSE s

\* str.strip()
strip(s) == rstrip(lstrip(s))

\* the length of the run of whitespace s starts with
RECURSIVE space_run(_)
space_run(s) == IF s # <<>> /\ IsSpace(Head(s)) THEN 1 + space_run(Tail(s)) ELSE 0

\* re.sub(r"\s{2,}", " ", s)
RECURSIVE collapse_spaces(_)
collapse_spaces(s) ==
    IF s = <<>> THEN <<>>
    ELSE LET n == space_run(s) IN
         IF n >= 2 THEN <<SP>> \o collapse_spaces(SubSeq(s, n + 1, Len(s)))
         ELSE <<Head(s)>> \o collapse_spaces(Tail(s))

\* str.startswith
startswith(s, prefix) ==
    Len(s) >= Len(prefix) /\ SubSeq(s, 1, Len(prefix)) = prefix

\* s[:n] for n >= 0
prefix_of(s, n) == SubSeq(s, 1, IF n < Len(s) THEN n ELSE Len(s))

\* re.match(r"^<TimeLabel>\s*<AllDayWord>\s*$", ln), for ln without "\n"
match_allday_label(ln) ==
    /\ startswith(ln, TimeLabel)
    /\ LET rest == lstrip(SubSeq(ln, Len(TimeLabel) + 1, Len(ln))) IN
         /\ startswith(rest, AllDayWord)
         /\ \A i \in (Len(AllDayWord) + 1)..Len(rest) : IsSpace(rest[i])

\* the loop of shape_memo over raw_lines, from the 1-based position i
RECURSIVE shape_loop(_, _, _, _, _, _)
shape_loop(raw_lines, i, allday_like, shaped, prev_was_time_label, blank_count) ==
    IF i > Len(raw_lines) THEN shaped
    ELSE LET ln == raw_lines[i]
             is_time_label == startswith(ln, TimeLabel)
         IN
         IF allday_like /\ (i - 1) < 3 /\ match_allday_label(ln)
         THEN shape_loop(raw_lines, i + 1, allday_like, shaped,
                         prev_was_time_label, blank_count)
         ELSE IF is_time_label /\ prev_was_time_label
         THEN shape_loop(raw_lines, i + 1, allday_like, shaped,
                         prev_was_time_label, blank_count)
         ELSE IF ln = <<>>
         THEN IF blank_count + 1 > 1
              THEN shape_loop(raw_lines, i + 1, allday_like, shaped,
                              is_time_label, blank_count + 1)
              ELSE shape_loop(raw_lines, i + 1, allday_like, Append(shaped, ln),
                              is_time_label, blank_count + 1)
         ELSE shape_loop(raw_lines, i + 1, allday_like, Append(shaped, ln),
                         is_time_label, 0)

shape_memo(desc, max_len, allday_like) ==
    IF desc = <<>> THEN <<>>
    ELSE LET lines == splitlines(desc)
             raw_lines == [k \in 1..Len(lines) |-> collapse_spaces(strip(lines[k]))]
             shaped == shape_loop(raw_lines, 1, allday_like, <<>>, FALSE, 0)
             s == strip(join(<<NL>>, shaped))
         IN IF max_len > 0 /\ Len(s) > max_len
            THEN prefix_of(s, max_len) \o MemoSuffix
            ELSE s

(***************************************************************************)
(* Dates and times.  A raw DTSTART/DTEND value is one of                   *)
(*   Date(d)       a datetime.date: day d                                  *)
(*   Naive(t)      a datetime without tzinfo showing wall-clock minute t   *)
(*   Zoned(t, off) a datetime showing wall-clock minute t in a zone whose  *)
(*                 UTC offset is off minutes                               *)
(***************************************************************************)
Date(d) == [kind |-> "date", day |-> d]
Naive(t) == [kind |-> "datetime", tzinfo |-> None, t |-> t]
Zoned(t, off) == [kind |-> "datetime", tzinfo |-> [utcoffset |-> off], t |-> t]
\* a tz-aware datetime in JST
Jst(t) == [jst |-> t]

\* to_jst, the inner function of normalize_event_to_jst
to_jst(dt_obj) ==
    IF dt_obj = None THEN None
    ELSE IF dt_obj.kind = "datetime"
    THEN IF dt_obj.tzinfo = None
         THEN Jst(dt_obj.t)
         ELSE Jst(dt_obj.t - dt_obj.tzinfo.utcoffset + JstOffset)
    ELSE IF dt_obj.kind = "date"
    THEN Jst(dt_obj.day * OneDay)
    ELSE None

\* a variant that keeps an end equal to the start
RepairEndStrictlyBefore(s, e, allday_like) ==
    IF e = None \/ e.jst < s.jst
    THEN [s |-> s, e |-> Jst(s.jst + (IF allday_like THEN OneDay ELSE OneHour)),
          allday_like |-> allday_like, fixed |-> TRUE]
    ELSE [s |-> s, e |-> e, allday_like |-> allday_like, fixed |-> FALSE]

\* a variant that extends every repaired event by one hour
RepairEndAlwaysOneHour(s, e, allday_like) ==
    IF e = None \/ e.jst <= s.jst
    THEN [s |-> s, e |-> Jst(s.jst + OneHour),
          allday_like |-> allday_like, fixed |-> TRUE]
    ELSE [s |-> s, e |-> e, allday_like |-> allday_like, fixed |-> FALSE]

\* the repair of a missing, zero-length or negative-length end
\* (normalize_event_to_jst, from "fixed = False" to the return)
repair_end(s, e, allday_like) ==
    IF e = None \/ e.jst <= s.jst
    THEN [s |-> s, e |-> Jst(s.jst + (IF allday_like THEN OneDay ELSE OneHour)),
          allday_like |-> allday_like, fixed |-> TRUE]
    ELSE [s |-> s, e |-> e, allday_like |-> allday_like, fixed |-> FALSE]

normalize_event_to_jst(vevent) ==
    LET dtstart == vevent.dtstart
        dtend == vevent.dtend
    IN  IF dtstart = None
        THEN [s |-> None, e |-> None, allday_like |-> FALSE, fixed |-> FALSE]
        ELSE LET is_date_start == dtstart.kind = "date"
                 is_date_end == IF dtend # None THEN dtend.kind = "date" ELSE FALSE
                 allday_like == is_date_start \/ is_date_end
                 s == to_jst(dtstart)
                 e == IF dtend # None THEN to_jst(dtend) ELSE None
             IN  IF s = None
                 THEN [s |-> None, e |-> None, allday_like |-> allday_like,
                       fixed |-> FALSE]
                 ELSE repair_end(s, e, allday_like)

\* a variant that lets an interval touching the window overlap it
OverlapsClosed(start, end, day_start, day_end) ==
    start.jst <= day_end.jst /\ end.jst >= day_start.jst

overlaps_today_jst(start, end, day_start, day_end) ==
    start.jst < day_end.jst /\ end.jst > day_start.jst

(***************************************************************************)
(* The variables of a part of the model that a specification leaves alone. *)
(***************************************************************************)
NormIdle == n_vevent = None /\ n_result = Pending
MemoIdle ==
    /\ m_desc = <<>> /\ m_max_len = 0 /\ m_allday = FALSE
    /\ m_pc = "idle" /\ m_once = <<>> /\ m_twice = <<>>
MainIdle ==
    /\ pc = "idle" /\ clock = 0 /\ credentials = FALSE /\ dump = FALSE
    /\ test_message = None /\ ics_exists = FALSE
    /\ cal = <<>> /\ today = Pending /\ window = Pending /\ items = <<>>
    /\ header = <<>> /\ event_msgs = <<>> /\ dumped = Pending /\ titles = None
    /\ idx = 0 /\ sent = 0 /\ errors = 0 /\ wire = <<>> /\ fail_log = <<>>
    /\ ok = <<>> /\ exit_code = <<>>

(***************************************************************************)
(* SpecNorm: normalize_event_to_jst applied to one event.                  *)
(***************************************************************************)
\* minutes of the day the raw times of SpecNorm show: 00:00, 01:00, 09:00,
\* 15:00 (midnight JST, seen from UTC) and 23:00
DayMinutes == {0, 60, 540, 900, 1380}
\* UTC offsets of the zones of SpecNorm: UTC, New York (EST), Tokyo
UtcOffsets == {0, -300, 540}
RawTimes == {d * OneDay + m : d \in 0..MaxDay, m \in DayMinutes}
RawValues ==
    {Date(d) : d \in 0..MaxDay}
    \cup {Naive(t) : t \in RawTimes}
    \cup {Zoned(t, off) : t \in RawTimes, off \in UtcOffsets}

VEvent(dtstart, dtend, summary, description) ==
    [dtstart |-> dtstart, dtend |-> dtend, summary |-> summary,
     description |-> description]

InitNorm ==
    /\ n_vevent \in {VEvent(st, en, None, None) :
                        st \in RawValues \cup {None}, en \in RawValues \cup {None}}
    /\ n_result = Pending
    /\ MemoIdle /\ MainIdle

Normalize ==
    /\ n_result = Pending
    /\ n_result' = normalize_event_to_jst(n_vevent)
    /\ UNCHANGED <<n_vevent, memoVars, mainVars>>

NextNorm == Normalize
SpecNorm == InitNorm /\ [][NextNorm]_vars

\* C1: for every event that has a start, the interval normalize_event_to_jst
\* returns ends strictly after it starts, whatever the shapes and values of
\* the raw start and end.
C1_EndAfterStart ==
    (n_result # Pending /\ n_vevent.dtstart # None)
        => /\ n_result.s # None /\ n_result.e # None
           /\ n_result.e.jst > n_result.s.jst

\* C1 witness: a date-only start with a zoned end that lies before it has
\* been normalized.
C1_Witness ==
    /\ n_result # Pending
    /\ n_vevent.dtstart # None /\ n_vevent.dtend # None
    /\ n_vevent.dtstart.kind = "date"
    /\ n_vevent.dtend.kind = "datetime" /\ n_vevent.dtend.tzinfo # None
    /\ to_jst(n_vevent.dtend).jst < to_jst(n_vevent.dtstart).jst

\* C9: the coerced end is kept, with fixed = FALSE, when it is strictly after
\* the start; otherwise the end is the start plus one day when the start or
\* the end is date-only, plus one hour when neither is, with fixed = TRUE.
C9_RepairRule ==
    (n_result # Pending /\ n_vevent.dtstart # None) =>
        LET st == n_vevent.dtstart
            en == n_vevent.dtend
            s == to_jst(st).jst
            date_only == st.kind = "date" \/ (en # None /\ en.kind = "date")
            keeps == en # None /\ to_jst(en).jst > s
        IN  /\ n_result.s = Jst(s)
            /\ n_result.fixed = ~keeps
            /\ keeps => n_result.e = to_jst(en)
            /\ (~keeps /\ date_only) => n_result.e = Jst(s + 1440)
            /\ (~keeps /\ ~date_only) => n_result.e = Jst(s + 60)

\* C9 witness: a timed start whose date-only end coerces to the start itself
\* has been repaired by one day.
C9_Witness ==
    /\ n_result # Pending
    /\ n_vevent.dtstart # None /\ n_vevent.dtend # None
    /\ n_vevent.dtstart.kind = "datetime" /\ n_vevent.dtend.kind = "date"
    /\ to_jst(n_vevent.dtend) = to_jst(n_vevent.dtstart)
    /\ n_result.fixed

(***************************************************************************)
(* SpecMemo: shape_memo applied to a description, then to its own result.  *)
(***************************************************************************)
\* a description is a concatenation of at most MaxPieces of these: a line
\* break, a space, the letter a, the time label, the word for "all day"
Pieces == {<<NL>>, <<SP>>, <<97>>, TimeLabel, AllDayWord}
Descriptions ==
    {Concat(ps) : ps \in UNION {[1..n -> Pieces] : n \in 0..MaxPieces}}
\* MEMO_MAX: truncation disabled (0, negative), the default, and small values
MemoMaxValues == {-1, 0, DefaultMemoMax} \cup (1..MaxTrunc)

InitMemo ==
    /\ m_desc \in Descriptions
    /\ m_max_len \in MemoMaxValues
    /\ m_allday \in BOOLEAN
    /\ m_pc = "input" /\ m_once = <<>> /\ m_twice = <<>>
    /\ NormIdle /\ MainIdle

ShapeOnce ==
    /\ m_pc = "input"
    /\ m_once' = shape_memo(m_desc, m_max_len, m_allday)
    /\ m_pc' = "once"
    /\ UNCHANGED <<m_desc, m_max_len, m_allday, m_twice, normVars, mainVars>>

ShapeAgain ==
    /\ m_pc = "once"
    /\ m_twice' = shape_memo(m_once, m_max_len, m_allday)
    /\ m_pc' = "twice"
    /\ UNCHANGED <<m_desc, m_max_len, m_allday, m_once, normVars, mainVars>>

NextMemo == ShapeOnce \/ ShapeAgain
SpecMemo == InitMemo /\ [][NextMemo]_vars

\* C2: memo shaping is idempotent: shaping an already shaped text, with the
\* same maximum length and all-day flag, yields the same text.
C2_Idempotent == m_pc = "twice" => m_twice = m_once

\* the same, for events that are not all-day-like
C2_IdempotentTimed == (m_pc = "twice" /\ ~m_allday) => m_twice = m_once

(***************************************************************************)
(* format_events_for_today.                                                *)
(***************************************************************************)
\* "%02d" % n
two_digits(n) == <<48 + (n \div 10), 48 + (n % 10)>>

\* str(n) for n >= 0
RECURSIVE str_int(_)
str_int(n) == IF n < 10 THEN <<48 + n>> ELSE str_int(n \div 10) \o <<48 + (n % 10)>>

\* dt.strftime('%H:%M') of a JST datetime
strftime_HM(dt) ==
    two_digits((dt.jst % OneDay) \div OneHour) \o <<58>> \o two_digits(dt.jst % OneHour)

\* d.strftime('%Y-%m-%d') of a date; the days of the model lie in January 2024
strftime_Ymd(d) == <<50, 48, 50, 52, 45, 48, 49, 45>> \o two_digits(d.day + 1)

\* d.weekday(): 2024-01-01, day 0, is a Monday
weekday(d) == d.day % 7

\* datetime.now(JST).date() at wall-clock minute now
today_jst(now) == Date(now \div OneDay)

\* get_today_range_jst() with now = None, the clock showing minute now
get_today_range_jst(now) ==
    LET day_start == Jst((now \div OneDay) * OneDay)
    IN  [day_start |-> day_start, day_end |-> Jst(day_start.jst + OneDay)]

\* a < b for two str values: code point by code point
RECURSIVE str_lt(_, _)
str_lt(a, b) ==
    IF b = <<>> THEN FALSE
    ELSE IF a = <<>> THEN TRUE
    ELSE IF Head(a) # Head(b) THEN Head(a) < Head(b)
    ELSE str_lt(Tail(a), Tail(b))

\* a variant that compares the titles alone
KeyLtTitleOnly(x, y) == str_lt(x.title, y.title)

\* the sort key of an item, (x[0], x[1]), compared as Python compares tuples
key_lt(x, y) ==
    \/ x.disp_start.jst < y.disp_start.jst
    \/ x.disp_start.jst = y.disp_start.jst /\ str_lt(x.title, y.title)

\* list.sort(key=...): a stable sort, as an insertion sort
RECURSIVE insert_sorted(_, _)
insert_sorted(sorted, x) ==
    IF sorted = <<>> THEN <<x>>
    ELSE IF key_lt(x, Head(sorted)) THEN <<x>> \o sorted
    ELSE <<Head(sorted)>> \o insert_sorted(Tail(sorted), x)

RECURSIVE sort_items(_)
sort_items(list) ==
    IF list = <<>> THEN <<>>
    ELSE insert_sorted(sort_items(SubSeq(list, 1, Len(list) - 1)), list[Len(list)])

\* the body of the loop of format_events_for_today for one VEVENT that
\* survived the filter: the item appended to items.  SHOW_MEMO, SHOW_LINKS
\* and MEMO_MAX have their defaults; no text of the model holds a URL, so
\* extract_meeting_link returns "" and no link line is added.
make_item(vevent, n, day_start, day_end) ==
    LET disp_start == IF n.s.jst >= day_start.jst THEN n.s ELSE day_start
        disp_end == IF n.e.jst <= day_end.jst THEN n.e ELSE day_end
        title == IF vevent.summary # None THEN vevent.summary.value ELSE Untitled
        desc_raw == IF vevent.description # None /\ vevent.description.value # <<>>
                    THEN vevent.description.value ELSE <<>>
        memo == shape_memo(desc_raw, DefaultMemoMax, n.allday_like)
        when == IF n.allday_like THEN AllDayWord ELSE strftime_HM(disp_start)
        lines == <<Bullet \o when, title>>
                 \o (IF memo # <<>> THEN <<MemoHead, memo>> ELSE <<>>)
    IN  [disp_start |-> disp_start, title |-> title, line |-> join(<<NL>>, lines)]

\* the loop of format_events_for_today: items, in calendar order
RECURSIVE collect_items(_, _, _)
collect_items(vevents, day_start, day_end) ==
    IF vevents = <<>> THEN <<>>
    ELSE LET vevent == Head(vevents)
             n == normalize_event_to_jst(vevent)
             rest == collect_items(Tail(vevents), day_start, day_end)
         IN  IF n.s = None \/ n.e = None THEN rest
             ELSE IF ~overlaps_today_jst(n.s, n.e, day_start, day_end) THEN rest
             ELSE <<make_item(vevent, n, day_start, day_end)>> \o rest

\* the header, "[<header_plain> zen<count>ken]"
header_msg(date, count) ==
    <<12304>> \o HeaderPlainPrefix \o strftime_Ymd(date)
        \o <<65288, weekdays_jp[weekday(date) + 1], 65289>>
        \o <<32, 20840>> \o str_int(count) \o <<20214, 12305>>

\* a variant that counts every VEVENT of the calendar
MatchedIsTotal(vevents, its) == Len(vevents)

\* matched = len(items)
matched_count(vevents, its) == Len(its)

\* format_events_for_today(cal, today_jst), the clock showing minute now:
\* the header, the event messages, and the sorted items and the window
format_events_for_today(vevents, date, now) ==
    LET w == get_today_range_jst(now)
        its == collect_items(vevents, w.day_start, w.day_end)
        matched == matched_count(vevents, its)
        sorted == sort_items(its)
    IN  [window |-> w,
         items |-> sorted,
         header |-> header_msg(date, IF its = <<>> THEN 0 ELSE matched),
         event_msgs |-> [k \in 1..Len(sorted) |-> sorted[k].line]]

(***************************************************************************)
(* Sending.                                                                *)
(***************************************************************************)
clip_message(message) ==
    IF Len(message) <= ClipAbove THEN message
    ELSE LET limit == IF ClipTo - Len(ClipSuffix) > 0
                      THEN ClipTo - Len(ClipSuffix) ELSE 0
         IN  prefix_of(message, limit) \o ClipSuffix

\* the HTTP status codes the LINE API answers with in the model
HttpStatuses == {200, 500}

\* send_push / send_broadcast: without credentials a dry run reports
\* (0, True, "dry-run"); with them, ok tells whether the status is 2xx
\* (the summary is the body of the response, which the model leaves out)
Responses ==
    IF ~credentials THEN {[status |-> 0, ok |-> TRUE]}
    ELSE {[status |-> c, ok |-> (200 <= c /\ c < 300)] : c \in HttpStatuses}

\* what send_one hands to the transport, and what came back
Sent(message, r) == [text |-> message, status |-> r.status, ok |-> r.ok]

(***************************************************************************)
(* Spec: one run of main().                                                *)
(***************************************************************************)
\* today_jst() is called on day 1 (2024-01-02) at 23:30 JST; the clock
\* advances in steps of half an hour
StartClock == OneDay + 23 * OneHour + (OneHour \div 2)
ClockStep == OneHour \div 2

\* DTSTART and DTEND of the events of the calendar: no start; all day on day
\* 1; 23:00 on day 0; 09:00 on day 1; 00:00 on day 2; and no end; 00:30 on
\* day 1
CalStarts == {None, Date(1), Naive(23 * OneHour), Naive(OneDay + 9 * OneHour),
              Naive(2 * OneDay)}
CalEnds == {None, Naive(OneDay + (OneHour \div 2))}
\* SUMMARY and DESCRIPTION: "A" without description, and "B" with the
\* description "<TimeLabel><AllDayWord>\na  a"
CalTexts ==
    {[summary |-> Some(<<65>>), description |-> None],
     [summary |-> Some(<<66>>),
      description |-> Some(TimeLabel \o AllDayWord \o <<NL, 97, SP, SP, 97>>)]}
CalEvents ==
    {VEvent(st, en, tx.summary, tx.description) :
        st \in CalStarts, en \in CalEnds, tx \in CalTexts}
Calendars == UNION {[1..n -> CalEvents] : n \in 0..MaxEvents}

\* the loop of main's --dump branch: the totals it prints
dump_totals(vevents, day_start, day_end) ==
    LET ns == [k \in 1..Len(vevents) |-> normalize_event_to_jst(vevents[k])]
        usable == {k \in 1..Len(vevents) : ns[k].s # None /\ ns[k].e # None}
    IN  [total |-> Len(vevents),
         normalized_count |-> Cardinality({k \in usable : ns[k].fixed}),
         matched |-> Cardinality({k \in usable :
                        overlaps_today_jst(ns[k].s, ns[k].e, day_start, day_end)})]

\* "if args.test_message:": the option was given and is not the empty string
TestGiven == test_message # None /\ test_message.value # <<>>

\* the command lines of the model: no option, --test "", --test "A", --dump
\* and --dump --test "A"
Args ==
    {[dump |-> d, test_message |-> t] :
        d \in BOOLEAN, t \in {None, Some(<<>>), Some(<<65>>)}}
    \ {[dump |-> TRUE, test_message |-> Some(<<>>)]}

Init ==
    /\ pc = "main"
    /\ clock = StartClock
    /\ credentials \in BOOLEAN
    /\ \E a \in Args : dump = a.dump /\ test_message = a.test_message
    /\ ics_exists \in BOOLEAN
    \* a calendar is read only from an existing file, and only when the run
    \* loads it
    /\ IF ics_exists /\ (dump \/ ~TestGiven) THEN cal \in Calendars ELSE cal = <<>>
    /\ today = Pending /\ window = Pending /\ items = <<>>
    /\ header = <<>> /\ event_msgs = <<>> /\ dumped = Pending /\ titles = None
    /\ idx = 0 /\ sent = 0 /\ errors = 0 /\ wire = <<>> /\ fail_log = <<>>
    /\ ok = <<>> /\ exit_code = <<>>
    /\ NormIdle /\ MemoIdle

\* time passes between the first clock read of main(), today_jst(), and
\* its second one (the clock of Init is the time of the first read)
Tick ==
    /\ pc \in {"dump", "format", "test"}
    /\ clock < StartClock + MaxTicks * ClockStep
    /\ clock' = clock + ClockStep
    /\ UNCHANGED <<pc, inputVars, today, window, items, header, event_msgs,
                   dumped, titles, idx, sent, errors, wire, fail_log, ok,
                   exit_code, normVars, memoVars>>

\* main: cal = load_calendar(ics_path), in the --dump branch and in the
\* branch without a test message; sys.exit(1) when the file is missing
MainLoadCalendar ==
    /\ pc = "main"
    /\ dump \/ ~TestGiven
    /\ IF ics_exists
       THEN pc' = "today" /\ exit_code' = exit_code
       ELSE pc' = "exited" /\ exit_code' = <<1>>
    /\ UNCHANGED <<clock, inputVars, today, window, items, header, event_msgs,
                   dumped, titles, idx, sent, errors, wire, fail_log, ok,
                   normVars, memoVars>>

\* main: today = today_jst(), in each of the three branches (the branch
\* with a test message loads no calendar)
MainToday ==
    /\ pc = "today" \/ (pc = "main" /\ ~dump /\ TestGiven)
    /\ today' = today_jst(clock)
    /\ pc' = IF dump THEN "dump" ELSE IF TestGiven THEN "test" ELSE "format"
    /\ UNCHANGED <<clock, inputVars, window, items, header, event_msgs,
                   dumped, titles, idx, sent, errors, wire, fail_log, ok,
                   exit_code, normVars, memoVars>>

\* main with --dump: the window, the totals over all events, sys.exit(0)
MainDump ==
    /\ pc = "dump"
    /\ LET w == get_today_range_jst(clock) IN
         /\ window' = w
         /\ dumped' = dump_totals(cal, w.day_start, w.day_end)
    /\ exit_code' = <<0>>
    /\ pc' = "exited"
    /\ UNCHANGED <<clock, inputVars, today, items, header, event_msgs, titles,
                   idx, sent, errors, wire, fail_log, ok, normVars, memoVars>>

\* main: header, event_msgs = format_events_for_today(cal, today)
MainFormat ==
    /\ pc = "format"
    /\ LET r == format_events_for_today(cal, today, clock) IN
         /\ window' = r.window
         /\ items' = r.items
         /\ header' = r.header
         /\ event_msgs' = r.event_msgs
    /\ titles' = None
    /\ pc' = "send_header"
    /\ UNCHANGED <<clock, inputVars, today, dumped, idx, sent, errors, wire,
                   fail_log, ok, exit_code, normVars, memoVars>>

\* main with --test: the header for one event and one dummy event message
MainTest ==
    /\ pc = "test"
    /\ header' = header_msg(today, 1)
    /\ event_msgs' = <<join(<<NL>>, <<Bullet \o strftime_HM(Jst(clock)),
                                      test_message.value, MemoHead>>)>>
    /\ titles' = Some(<<test_message.value>>)
    /\ pc' = "send_header"
    /\ UNCHANGED <<clock, inputVars, today, window, items, dumped, idx, sent,
                   errors, wire, fail_log, ok, exit_code, normVars, memoVars>>

\* send_messages, up to the loop: the header is sent
SendHeader ==
    /\ pc = "send_header"
    /\ \E r \in Responses :
         /\ wire' = Append(wire, Sent(clip_message(header), r))
         /\ sent' = 1
         /\ errors' = IF ~r.ok THEN 1 ELSE 0
    /\ idx' = 0
    /\ pc' = "send_events"
    /\ UNCHANGED <<clock, inputVars, today, window, items, header, event_msgs,
                   dumped, titles, fail_log, ok, exit_code, normVars, memoVars>>

\* a variant of SendEvent that sends a failed message again
SendEventRetry ==
    /\ pc = "send_events"
    /\ idx < Len(event_msgs)
    /\ \E r \in Responses :
         /\ wire' = Append(wire, Sent(clip_message(event_msgs[idx + 1]), r))
         /\ sent' = sent + 1
         /\ errors' = IF ~r.ok THEN errors + 1 ELSE errors
         /\ fail_log' = fail_log
         /\ idx' = IF r.ok THEN idx + 1 ELSE idx
    /\ UNCHANGED <<pc, clock, inputVars, today, window, items, header,
                   event_msgs, dumped, titles, ok, exit_code, normVars,
                   memoVars>>

\* send_messages, one iteration of the loop: event message idx is sent
SendEvent ==
    /\ pc = "send_events"
    /\ idx < Len(event_msgs)
    /\ \E r \in Responses :
         /\ wire' = Append(wire, Sent(clip_message(event_msgs[idx + 1]), r))
         /\ sent' = sent + 1
         /\ errors' = IF ~r.ok THEN errors + 1 ELSE errors
         /\ fail_log' =
              IF ~r.ok
              THEN LET title_hint ==
                           IF titles # None /\ titles.value # <<>>
                              /\ idx < Len(titles.value)
                           THEN titles.value[idx + 1] ELSE NoTitle
                   IN  Append(fail_log, [title |-> title_hint, status |-> r.status])
              ELSE fail_log
    /\ idx' = idx + 1
    /\ UNCHANGED <<pc, clock, inputVars, today, window, items, header,
                   event_msgs, dumped, titles, ok, exit_code, normVars,
                   memoVars>>

\* a variant of SendReturn that reports success whatever was tallied
SendReturnAlwaysOk ==
    /\ pc = "send_events"
    /\ idx >= Len(event_msgs)
    /\ ok' = <<TRUE>>
    /\ exit_code' = <<0>>
    /\ pc' = "exited"
    /\ UNCHANGED <<clock, inputVars, today, window, items, header, event_msgs,
                   dumped, titles, idx, sent, errors, wire, fail_log, normVars,
                   memoVars>>

\* send_messages returns errors == 0, and main exits with 0 if ok else 1
SendReturn ==
    /\ pc = "send_events"
    /\ idx >= Len(event_msgs)
    /\ ok' = <<errors = 0>>
    /\ exit_code' = <<IF errors = 0 THEN 0 ELSE 1>>
    /\ pc' = "exited"
    /\ UNCHANGED <<clock, inputVars, today, window, items, header, event_msgs,
                   dumped, titles, idx, sent, errors, wire, fail_log, normVars,
                   memoVars>>

Next ==
    \/ Tick
    \/ MainLoadCalendar
    \/ MainToday
    \/ MainDump
    \/ MainFormat
    \/ MainTest
    \/ SendHeader
    \/ SendEvent
    \/ SendReturn

Spec == Init /\ [][Next]_vars

(***************************************************************************)
(* Properties of Spec.                                                     *)
(***************************************************************************)
\* format_events_for_today has returned
Formatted ==
    /\ ~dump /\ ~TestGiven
    /\ pc \in {"send_header", "send_events"} \/ ok # <<>>
\* send_messages is in or past its loop
Sending == pc = "send_events" \/ ok # <<>>
\* send_messages has returned
Returned == ok # <<>>
\* the texts send_messages is to hand over, in order
Outgoing == <<header>> \o event_msgs
FailedSends == {i \in 1..Len(wire) : ~wire[i].ok}

\* C3: the header is the first text sent, then each event message in the
\* order of the list; every message is handed to the sender exactly once, so
\* a call with n event messages makes exactly n + 1 sends.
C3_HeaderFirstEachOnce ==
    /\ pc = "send_header" => wire = <<>>
    /\ Sending =>
          /\ Len(wire) = idx + 1 /\ sent = Len(wire)
          /\ Len(wire) <= Len(Outgoing)
          /\ \A i \in 1..Len(wire) : wire[i].text = Outgoing[i]
    /\ Returned => Len(wire) = Len(event_msgs) + 1

\* C3 witness: a run has ended in which two different event messages were
\* sent and the first of them failed.
C3_Witness ==
    /\ Returned /\ Len(event_msgs) = 2
    /\ event_msgs[1] # event_msgs[2]
    /\ ~wire[2].ok

\* C4: a send that reports ok = false never stops the dispatch: the remaining
\* messages are still sent, and send_messages returns success (exit code 0)
\* if and only if no send reported ok = false.
C4_FailureNeverStops ==
    /\ (pc = "send_events" /\ idx < Len(event_msgs)) => ENABLED SendEvent
    /\ Returned =>
          /\ Len(wire) = Len(event_msgs) + 1
          /\ (ok = <<TRUE>>) <=> (FailedSends = {})
          /\ exit_code = <<IF FailedSends = {} THEN 0 ELSE 1>>

\* C4 witness: a run has ended whose header send failed and whose two event
\* sends, made after it, succeeded.
C4_Witness ==
    /\ Returned /\ Len(wire) = 3
    /\ ~wire[1].ok /\ wire[2].ok /\ wire[3].ok
    /\ ok = <<FALSE>> /\ exit_code = <<1>>

\* C5: every failed send is logged with its own failure line, so there are as
\* many failure lines as failed sends.
C5_EveryFailureLogged ==
    Sending => Len(fail_log) = Cardinality(FailedSends)

\* C6: an event produces a message if and only if it has a start and its
\* normalized interval overlaps the day window: start < day_end and
\* end > day_start.
Survives(vevent) ==
    /\ vevent.dtstart # None
    /\ LET n == normalize_event_to_jst(vevent) IN
         n.s.jst < window.day_end.jst /\ n.e.jst > window.day_start.jst
ClippedStart(vevent) ==
    LET n == normalize_event_to_jst(vevent) IN
    IF n.s.jst > window.day_start.jst THEN n.s ELSE window.day_start
TitleOf(vevent) == IF vevent.summary = None THEN Untitled ELSE vevent.summary.value
Survivors == {k \in 1..Len(cal) : Survives(cal[k])}

C6_MessageIffOverlap ==
    Formatted =>
        /\ Len(event_msgs) = Cardinality(Survivors)
        /\ Len(items) = Len(event_msgs)
        /\ \A k \in Survivors : \E i \in 1..Len(items) :
              items[i].title = TitleOf(cal[k]) /\ items[i].disp_start = ClippedStart(cal[k])
        /\ \A i \in 1..Len(items) : \E k \in Survivors :
              items[i].title = TitleOf(cal[k]) /\ items[i].disp_start = ClippedStart(cal[k])

\* C6 witness: the calendar holds an event that ends exactly at day_start and
\* an event that starts exactly at day_end, and neither produced a message.
C6_Witness ==
    /\ Formatted /\ Len(cal) = 2 /\ event_msgs = <<>>
    /\ cal[1].dtstart # None /\ cal[2].dtstart # None
    /\ normalize_event_to_jst(cal[1]).e = window.day_start
    /\ normalize_event_to_jst(cal[2]).s = window.day_end

\* a <= b for two titles, code point by code point
TitleLeq(a, b) ==
    \/ a = b
    \/ \E k \in 1..(Len(b)) :
          /\ k <= Len(a) + 1
          /\ \A j \in 1..(k - 1) : a[j] = b[j]
          /\ (k = Len(a) + 1 \/ a[k] < b[k])

Reverse(seq) == [k \in 1..Len(seq) |-> seq[Len(seq) + 1 - k]]
DistinctKeys ==
    \A i, j \in 1..Len(items) :
        i # j => (items[i].disp_start # items[j].disp_start \/ items[i].title # items[j].title)

\* C7: the event messages are ordered by (clipped start, title) ascending,
\* and when the keys differ the order of the events in the calendar does not
\* matter.
C7_SortedByStartThenTitle ==
    Formatted =>
        /\ \A i \in 1..(Len(items) - 1) :
              \/ items[i].disp_start.jst < items[i + 1].disp_start.jst
              \/ /\ items[i].disp_start.jst = items[i + 1].disp_start.jst
                 /\ TitleLeq(items[i].title, items[i + 1].title)
        /\ \A i \in 1..Len(items) :
              /\ event_msgs[i] = items[i].line
              /\ items[i].disp_start.jst >= window.day_start.jst
        /\ DistinctKeys =>
              event_msgs =
                  format_events_for_today(Reverse(cal), today,
                                          window.day_start.jst).event_msgs

\* C7 witness: two events with the same clipped start were put in title
\* order against their calendar order, the first of them clipped to day_start.
C7_Witness ==
    /\ Formatted /\ Len(cal) = 2 /\ Len(items) = 2
    /\ items[1].disp_start = items[2].disp_start
    /\ items[1].title = <<65>> /\ items[2].title = <<66>>
    /\ cal[1].summary = Some(<<66>>)
    /\ normalize_event_to_jst(cal[1]).s.jst < window.day_start.jst

\* the count a header carries: the decimal number before its last two
\* characters
RECURSIVE DecimalValue(_)
DecimalValue(digits) ==
    IF digits = <<>> THEN 0
    ELSE 10 * DecimalValue(SubSeq(digits, 1, Len(digits) - 1)) + (digits[Len(digits)] - 48)
HeaderCount(h) ==
    LET p == CHOOSE q \in 1..Len(h) :
                 h[q] = 20840 /\ \A j \in (q + 1)..(Len(h) - 2) : h[j] \in 48..57
    IN  DecimalValue(SubSeq(h, p + 1, Len(h) - 2))

\* C8: the count in the header equals the number of event messages returned
\* with it, one per surviving event; with no surviving event the header says
\* 0, the list is empty, and exactly the header is sent.
C8_HeaderCountIsMessages ==
    /\ Formatted =>
          /\ HeaderCount(header) = Len(event_msgs)
          /\ Len(event_msgs) = Cardinality(Survivors)
    /\ (Formatted /\ Returned /\ Survivors = {}) =>
          /\ event_msgs = <<>> /\ HeaderCount(header) = 0
          /\ Len(wire) = 1 /\ wire[1].text = header

\* C8 witness: a run has ended whose calendar holds two events of which none
\* survives, and exactly one message, the header, was sent.
C8_Witness ==
    /\ Formatted /\ Returned
    /\ Len(cal) = 2 /\ Survivors = {}
    /\ Len(wire) = 1

\* C10: the date in the header and the day window refer to the same calendar
\* day: the window starts at local midnight of the header's date.
C10_HeaderDateIsWindowDay ==
    Formatted =>
        /\ window.day_start = Jst(today.day * 1440)
        /\ header = header_msg(today_jst(window.day_start.jst), Len(event_msgs))

=============================================================================
